---- MODULE Spec2Model ----
(***************************************************************************)
(* Parallel vanity-salt search of the omnidragon contracts repository.     *)
(* Five search programs are modelled:                                      *)
(*   "oracle" deploy/OmniDragonOracle/oracle-vanity-generator/src/main.rs  *)
(*   "main"   src/main.rs                                                  *)
(*   "vrfi"   src/vrf_integrator_vanity.rs                                 *)
(*   "gen"    vanity-generator/src/main.rs                                 *)
(*   "vrfc"   src/vrf_vanity.rs                                            *)
(* Strings are sequences of ASCII codes, byte strings sequences of 0..255. *)
(* The atomics (found flag, attempt counter) are modelled as sequentially  *)
(* consistent: every load, store and fetch_add is one step of one worker.  *)
(***************************************************************************)
EXTENDS Integers, Sequences, FiniteSets, TLC

\* ------------------------------------------------------------------ bounds
\* Largest worker count / pool size explored.
MaxThreads == 2
\* Largest max_attempts explored in src/main.rs and vrf_integrator.
MaxAttempts == 4
\* Largest CPU count explored where it is the default worker count
\* (--threads 0 in the oracle program and the vanity-generator).
MaxCpus == 1
\* Largest max_attempts explored in the oracle program.
OracleMaxAttempts == 1
\* Largest progress_interval explored (oracle).
MaxInterval == 1
\* Number of distinct random salts a worker can draw.
NumSalts == 2
\* Scaled stand-in for the 1000-attempt flush interval of src/main.rs.
MainFlush == 2
\* Scaled stand-in for the 10000-attempt flush interval of vrf_integrator.
VrfiFlush == 2
\* Scaled stand-in for BATCH_SIZE = 1_000_000 of vanity-generator.
BATCH_SIZE == 2
\* Scaled stand-in for max_batches = 100_000 of vanity-generator.
max_batches == 2

\* Derivations explored in a search without attempt ceiling.
MaxEvals == 2

\* --------------------------------------------------------------- constants
\* Match-score weight per matching character.
ScoreWeight == 10

\* ------------------------------------------------------------ text helpers
\* char::to_lowercase on ASCII.
ToLowerChar(c) == IF c \in 65..90 THEN c + 32 ELSE c

\* str::to_lowercase
to_lowercase(s) == [i \in 1..Len(s) |-> ToLowerChar(s[i])]

\* char::is_ascii_hexdigit
is_ascii_hexdigit(c) == c \in 48..57 \/ c \in 97..102 \/ c \in 65..70

\* str::starts_with
starts_with(s, p) == Len(p) <= Len(s) /\ SubSeq(s, 1, Len(p)) = p

\* str::ends_with
ends_with(s, p) == Len(p) <= Len(s) /\ SubSeq(s, Len(s) - Len(p) + 1, Len(s)) = p

\* &s[2..]
Skip2(s) == SubSeq(s, 3, Len(s))

\* The two characters of "0x".
ZeroX == <<48, 120>>

\* Value of one hex digit.
HexVal(c) == IF c \in 48..57 THEN c - 48
             ELSE IF c \in 97..102 THEN c - 87
             ELSE c - 55

\* Lowercase hex digit of a nibble.
HexChar(n) == IF n < 10 THEN 48 + n ELSE 87 + n

\* hex::encode : bytes -> lowercase hex text
hex_encode(b) == [i \in 1..(2 * Len(b)) |->
                    IF i % 2 = 1 THEN HexChar(b[(i + 1) \div 2] \div 16)
                                 ELSE HexChar(b[i \div 2] % 16)]

\* hex::decode succeeds on even-length all-hex text.
hex_decode_ok(s) == Len(s) % 2 = 0 /\ \A i \in 1..Len(s) : is_ascii_hexdigit(s[i])

\* hex::decode : hex text -> bytes (defined when hex_decode_ok)
hex_decode(s) == [i \in 1..(Len(s) \div 2) |->
                    16 * HexVal(s[2 * i - 1]) + HexVal(s[2 * i])]

\* normalize_hex of the oracle program.
normalize_hex(s) == IF starts_with(s, ZeroX) THEN ZeroX \o to_lowercase(Skip2(s))
                    ELSE ZeroX \o to_lowercase(s)

\* ------------------------------------------------------- derivation inputs
\* --factory default of the oracle program.
FactoryArg == <<48, 120, 65, 65, 50, 56, 48, 50, 48, 68, 68, 65, 54, 98, 57, 53, 52, 68, 49, 54, 50, 48, 56, 101, 99, 99, 70, 56, 55, 51, 68, 55, 57, 65, 67, 54, 53, 51, 51, 56, 51, 51>>
\* Example bytecode hash used when --bytecode-hash is absent.
BytecodeHashArg == <<48, 120, 49, 50, 51, 52, 53, 54, 55, 56, 57, 48, 97, 98, 99, 100, 101, 102, 49, 50, 51, 52, 53, 54, 55, 56, 57, 48, 97, 98, 99, 100, 101, 102, 49, 50, 51, 52, 53, 54, 55, 56, 57, 48, 97, 98, 99, 100, 101, 102, 49, 50, 51, 52, 53, 54, 55, 56, 57, 48, 97, 98, 99, 100, 101, 102>>
factory_address == normalize_hex(FactoryArg)
bytecode_hash == BytecodeHashArg
\* The same inputs as fixed-size byte arrays (Address, H256).
factory_bytes == hex_decode(Skip2(factory_address))
bytecode_hash_bytes == hex_decode(Skip2(bytecode_hash))

\* A factory of two bytes, a factory with non-hex characters, a hash of two
\* bytes.
ShortFactoryArg == <<48, 120, 65, 65, 50, 56>>
BadFactoryArg == <<48, 120, 90, 90>>
ShortHashArg == <<48, 120, 49, 50, 51, 52>>

\* input.strip_prefix("0x").unwrap_or(input)
StripZeroX(s) == IF starts_with(s, ZeroX) THEN Skip2(s) ELSE s

\* <Address as FromStr>::from_str succeeds on exactly 20 bytes of hex, with
\* or without a leading 0x.
address_parse_ok(s) ==
    /\ Len(StripZeroX(s)) = 40
    /\ \A i \in 1..Len(StripZeroX(s)) : is_ascii_hexdigit(StripZeroX(s)[i])

\* <H256 as FromStr>::from_str, the same for 32 bytes.
h256_parse_ok(s) ==
    /\ Len(StripZeroX(s)) = 64
    /\ \A i \in 1..Len(StripZeroX(s)) : is_ascii_hexdigit(StripZeroX(s)[i])

\* Both hex::decode(..).expect(..) of the oracle's calculate_create2_address
\* on the factory and the hash go through.
oracle_decodes(factory, hash) ==
    /\ hex_decode_ok(Skip2(factory))
    /\ hex_decode_ok(Skip2(hash))

\* (factory, hash) pairs explored as typed, by name.  src/main.rs takes the
\* hash without 0x, so it rejects a hash typed with 0x; vrf_integrator and
\* vrf_vanity.rs have both as constants of the source.
InputCases(v) ==
    IF v = "oracle" THEN {"default", "short_factory", "bad_factory", "short_hash"}
    ELSE IF v = "main" THEN {"default", "short_factory", "hash_0x", "short_hash"}
    ELSE IF v = "gen" THEN {"default", "bad_factory", "short_hash"}
    ELSE {"default"}

\* The factory text of an input pair.
FactoryText(v, c) == IF c = "short_factory" THEN ShortFactoryArg
                     ELSE IF c = "bad_factory" THEN BadFactoryArg
                     ELSE FactoryArg

\* The hash text of an input pair.
HashText(v, c) ==
    LET typed == IF c = "short_hash" THEN ShortHashArg ELSE BytecodeHashArg
    IN  IF v = "main" /\ c # "hash_0x" THEN Skip2(typed) ELSE typed

\* Defaults of --endpoint, --deployer, --coordinator, --subscription-id and
\* --key-hash of vrf_vanity.rs, as text.
EndpointArg == <<48, 120, 49, 97, 52, 52, 48, 55, 54, 48, 53, 48, 49, 50, 53, 56, 50, 53, 57, 48, 48, 101, 55, 51, 54, 99, 53, 48, 49, 102, 56, 53, 57, 99, 53, 48, 102, 69, 55, 50, 56, 99>>
DeployerArg == <<48, 120, 68, 68, 100, 48, 48, 53, 48, 100, 49, 69, 48, 56, 52, 100, 70, 99, 55, 50, 100, 53, 100, 48, 54, 52, 52, 55, 67, 99, 49, 48, 98, 99, 68, 51, 102, 69, 70, 54, 48, 70>>
CoordinatorArg == <<48, 120, 51, 67, 48, 67, 97, 54, 56, 51, 98, 52, 48, 51, 69, 51, 55, 54, 54, 56, 65, 69, 51, 68, 67, 52, 70, 66, 54, 50, 70, 52, 66, 50, 57, 66, 54, 102, 55, 97, 51, 101>>
SubscriptionIdArg == <<52, 57, 49, 51, 48, 53, 49, 50, 49, 54, 55, 55, 55, 55, 48, 57, 56, 48, 48, 52, 53, 49, 57, 53, 57, 50, 54, 57, 51, 53, 52, 49, 52, 50, 57, 57, 55, 55, 49, 55, 57, 52, 50, 48, 49, 52, 49, 52, 53, 57, 51, 50, 57, 54, 48, 52, 48, 53, 57, 50, 53, 51, 51, 51, 56, 50, 57, 48, 56, 49, 56, 48, 54, 50, 55, 52, 54>>
KeyHashArg == <<48, 120, 56, 52, 55, 50, 98, 97, 53, 57, 99, 102, 55, 49, 51, 52, 100, 102, 101, 51, 50, 49, 102, 52, 100, 54, 49, 97, 52, 51, 48, 99, 52, 56, 53, 55, 101, 56, 98, 49, 57, 99, 100, 100, 53, 50, 51, 48, 98, 48, 57, 57, 53, 50, 97, 57, 50, 54, 55, 49, 99, 50, 52, 52, 48, 57>>

\* ------------------------------------------------------------------ digest
\* Contribution of byte i of b to output byte k (0 past the end of b).
WeightedTerm(b, i, k) == IF i > Len(b) THEN 0 ELSE (b[i] + 1) * (i + k)

RECURSIVE WeightedSum(_, _, _)
\* Sum of the contributions of bytes i.. of b, eight bytes per step.
WeightedSum(b, i, k) ==
    IF i > Len(b) THEN 0
    ELSE WeightedTerm(b, i, k) + WeightedTerm(b, i + 1, k) + WeightedTerm(b, i + 2, k)
         + WeightedTerm(b, i + 3, k) + WeightedTerm(b, i + 4, k) + WeightedTerm(b, i + 5, k)
         + WeightedTerm(b, i + 6, k) + WeightedTerm(b, i + 7, k) + WeightedSum(b, i + 8, k)

\* Stand-in for Keccak256::digest: a fixed function from a byte string to 32
\* bytes in which every output byte depends on every input byte and on its
\* position.
Keccak256(input) == [k \in 1..32 |-> (WeightedSum(input, 1, k) * (2 * k + 1) + 31 * k) % 256]

\* ------------------------------------------------------------------- salts
RECURSIVE BigEndian(_, _)
\* The n low-order bytes of v, most significant first.
BigEndian(v, n) == IF n = 0 THEN <<>> ELSE BigEndian(v \div 256, n - 1) \o <<v % 256>>

\* H256::from_low_u64_be : 24 zero bytes, then the 64-bit value big-endian.
from_low_u64_be(v) == [i \in 1..24 |-> 0] \o BigEndian(v % (2 ^ 30), 8)

\* The salts the random generator can return in the model: rand yields any
\* 32 bytes, the model draws from NumSalts of them.
RandomSaltIds == 0..(NumSalts - 1)
RandomSalt == [k \in RandomSaltIds |-> from_low_u64_be(k)]

\* format!("0x{}", hex::encode(salt_bytes))
SaltText(bytes) == ZeroX \o hex_encode(bytes)

\* ---------------------------------------------------------------- derivers
\* calculate_create2_address of the oracle program (text in, text out).
oracle_calculate_create2_address(factory, salt, hash) ==
    LET fb == hex_decode(Skip2(factory))
        sb == hex_decode(Skip2(salt))
        hb == hex_decode(Skip2(hash))
        input == <<255>> \o fb \o sb \o hb
        digest == Keccak256(input)
    IN  ZeroX \o hex_encode(SubSeq(digest, 13, 32))

\* compute_create2_address of vrf_integrator_vanity.rs (text in, text out).
vrfi_compute_create2_address(factory, salt, hash) ==
    LET fb == hex_decode(Skip2(factory))
        sb == hex_decode(Skip2(salt))
        hb == hex_decode(Skip2(hash))
        finalized == Keccak256(<<255>> \o fb \o sb \o hb)
    IN  ZeroX \o hex_encode(SubSeq(finalized, 13, 32))

\* A derivation that keeps the first 20 bytes of the digest.
main_calculate_create2_address_First20(deployer, salt, hash) ==
    SubSeq(Keccak256(<<255>> \o deployer \o salt \o hash), 1, 20)

\* calculate_create2_address of src/main.rs (bytes in, 20 bytes out).
main_calculate_create2_address(deployer, salt, hash) ==
    SubSeq(Keccak256(<<255>> \o deployer \o salt \o hash), 13, 32)

\* compute_create2_address of vanity-generator (bytes in, 20 bytes out).
gen_compute_create2_address(factory, salt, hash) ==
    SubSeq(Keccak256(<<255>> \o factory \o salt \o hash), 13, 32)

\* create_constructor_bytecode of vrf_vanity.rs: the digest of the
\* constructor parameters written one after the other as text.
create_constructor_bytecode(endpoint, deployer, coordinator, subscription_id, key_hash) ==
    Keccak256(endpoint \o deployer \o coordinator \o subscription_id \o key_hash)

\* H256::from_slice(&Keccak256::digest(&bytecode)) in main of vrf_vanity.rs.
vrfc_bytecode_hash ==
    Keccak256(create_constructor_bytecode(EndpointArg, DeployerArg, CoordinatorArg,
                                          SubscriptionIdArg, KeyHashArg))

\* calculate_create2_address of vrf_vanity.rs (bytes in, 20 bytes out).
vrfc_calculate_create2_address(factory, salt, hash) ==
    LET hash32 == Keccak256(<<255>> \o factory \o salt \o hash)
    IN  SubSeq(hash32, 13, 32)

\* format!("{:#x}", address) of a 20-byte Address.
AddressText(a) == ZeroX \o hex_encode(a)

\* ---------------------------------------------------------------- matchers
\* (the pattern parameters are pfx and sfx: prefix and suffix name the state)
\* A matcher for which an empty prefix with an empty suffix matches nothing.
is_perfect_match_RejectsEmpty(address, pfx, sfx) ==
    /\ pfx \o sfx # <<>>
    /\ starts_with(Skip2(to_lowercase(address)), to_lowercase(pfx))
    /\ ends_with(Skip2(to_lowercase(address)), to_lowercase(sfx))

\* A matcher that compares the pattern as typed, without lowercasing it.
is_perfect_match_CaseSensitive(address, pfx, sfx) ==
    LET addr_without_prefix == Skip2(to_lowercase(address))
    IN  /\ starts_with(addr_without_prefix, pfx)
        /\ ends_with(addr_without_prefix, sfx)

\* is_perfect_match of the oracle program; address is "0x" + hex.
is_perfect_match(address, pfx, sfx) ==
    LET addr == to_lowercase(address)
        addr_without_prefix == Skip2(addr)
    IN  /\ starts_with(addr_without_prefix, to_lowercase(pfx))
        /\ ends_with(addr_without_prefix, to_lowercase(sfx))

\* The match test inside search_vanity_address of src/main.rs.
main_matches(address, pfx, sfx) ==
    LET address_lower == to_lowercase(AddressText(address))
    IN  /\ starts_with(address_lower, ZeroX \o to_lowercase(pfx))
        /\ ends_with(address_lower, to_lowercase(sfx))

\* check_vanity_pattern of vrf_integrator_vanity.rs; address is "0x" + hex.
vrfi_check_vanity_pattern(address, pfx, sfx) ==
    LET addr_lower == to_lowercase(address)
    IN  IF ~starts_with(addr_lower, ZeroX \o to_lowercase(pfx)) THEN FALSE
        ELSE IF ~ends_with(addr_lower, to_lowercase(sfx)) THEN FALSE
        ELSE TRUE

\* check_vanity_pattern of vanity-generator; address is 20 bytes.
gen_check_vanity_pattern(address, starts, ends) ==
    LET addr_hex == to_lowercase(hex_encode(address))
        starts_match == IF starts = <<>> THEN TRUE ELSE starts_with(addr_hex, starts)
        ends_match == IF ends = <<>> THEN TRUE ELSE ends_with(addr_hex, ends)
    IN  starts_match /\ ends_match

\* matches_pattern of vrf_vanity.rs; address is 20 bytes.
matches_pattern(address, pfx, sfx) ==
    LET addr_str == hex_encode(address)
        starts_match == IF pfx = <<>> THEN TRUE
                        ELSE starts_with(addr_str, to_lowercase(pfx))
        ends_match == IF sfx = <<>> THEN TRUE
                      ELSE ends_with(addr_str, to_lowercase(sfx))
    IN  starts_match /\ ends_match

\* calculate_match_score of the oracle program.
RECURSIVE CommonRun(_, _, _)
\* chars().zip().take_while(a == b).count() over two texts, from index i.
CommonRun(a, b, i) == IF i > Len(a) \/ i > Len(b) THEN 0
                      ELSE IF a[i] # b[i] THEN 0
                      ELSE 1 + CommonRun(a, b, i + 1)

\* chars().rev()
Reverse(s) == [i \in 1..Len(s) |-> s[Len(s) + 1 - i]]

\* A score that counts every position at which the address and the pattern
\* agree, going on past a mismatch.
calculate_match_score_SkipsMismatches(address, pfx, sfx) ==
    LET hex == Skip2(to_lowercase(address))
        p == to_lowercase(pfx)
        s == to_lowercase(sfx)
    IN  ScoreWeight * Cardinality({n \in 1..Len(p) : n <= Len(hex) /\ hex[n] = p[n]})
        + ScoreWeight * Cardinality({n \in 1..Len(s) : n <= Len(hex)
                                        /\ hex[Len(hex) + 1 - n] = s[Len(s) + 1 - n]})

\* A score that weighs a suffix character 1 instead of ScoreWeight.
calculate_match_score_SuffixUnweighted(address, pfx, sfx) ==
    LET hex == Skip2(to_lowercase(address))
    IN  CommonRun(hex, to_lowercase(pfx), 1) * ScoreWeight
        + CommonRun(Reverse(hex), Reverse(to_lowercase(sfx)), 1)

calculate_match_score(address, pfx, sfx) ==
    LET addr == to_lowercase(address)
        addr_without_prefix == Skip2(addr)
        target_prefix == to_lowercase(pfx)
        target_suffix == to_lowercase(sfx)
        prefix_match_len == CommonRun(addr_without_prefix, target_prefix, 1)
        suffix_match_len == CommonRun(Reverse(addr_without_prefix), Reverse(target_suffix), 1)
    IN  prefix_match_len * ScoreWeight + suffix_match_len * ScoreWeight

\* string_to_hex_prefix of vrf_integrator_vanity.rs.
string_to_hex_prefix(s) ==
    IF \A i \in 1..Len(s) : is_ascii_hexdigit(s[i]) THEN to_lowercase(s)
    ELSE hex_encode(s)

\* string_to_hex_pattern of vrf_vanity.rs.
string_to_hex_pattern(input) == hex_encode(input)

\* ------------------------------------------------------------------ tables
\* Salt and derived address of every draw, per program, computed once.
OracleSalt == [k \in RandomSaltIds |-> SaltText(RandomSalt[k])]
\* The oracle program derives from whatever factory and hash text decodes.
OracleDecodable == {c \in InputCases("oracle") :
                      oracle_decodes(normalize_hex(FactoryText("oracle", c)),
                                     normalize_hex(HashText("oracle", c)))}
OracleAddrFor == [c \in OracleDecodable |-> [k \in RandomSaltIds |->
                    oracle_calculate_create2_address(normalize_hex(FactoryText("oracle", c)),
                                                     OracleSalt[k],
                                                     normalize_hex(HashText("oracle", c)))]]
OracleAddr == OracleAddrFor["default"]
VrfiAddr == [k \in RandomSaltIds |->
               vrfi_compute_create2_address(factory_address, OracleSalt[k], bytecode_hash)]
MainAddr == [k \in RandomSaltIds |->
               main_calculate_create2_address(factory_bytes, RandomSalt[k], bytecode_hash_bytes)]
VrfcAddr == [k \in RandomSaltIds |->
               vrfc_calculate_create2_address(factory_bytes, RandomSalt[k], vrfc_bytecode_hash)]
GenSaltNums == 0..(max_batches * BATCH_SIZE - 1)
GenSalt == [n \in GenSaltNums |-> from_low_u64_be(n)]
GenAddr == [n \in GenSaltNums |->
              gen_compute_create2_address(factory_bytes, GenSalt[n], bytecode_hash_bytes)]

\* ----------------------------------------------------------------- targets
\* Operator-supplied (prefix, suffix) pairs explored: no constraint, a prefix
\* in upper case that the address of salt 0 alone carries, and a prefix no
\* explored salt reaches.
Targets == { << <<>>, <<>> >>, << <<57, 70>>, <<>> >>, << <<48, 48>>, <<>> >> }

\* The pairs explored per program: vrf_integrator also gets a pattern that is
\* not hex on either side; vrf_vanity.rs gets a pattern in upper case that the
\* address of salt 0 alone carries on both sides, and the non-hex one;
\* vanity-generator also gets a prefix that the address of salt number 3
\* alone carries.
TargetsOf(v) ==
    IF v = "vrfi" THEN Targets \cup { << <<86, 82>>, <<122, 122>> >> }
    ELSE IF v = "gen" THEN Targets \cup { << <<56, 49>>, <<>> >> }
    ELSE IF v = "vrfc" THEN { << <<>>, <<>> >>, << <<52, 66>>, <<70, 67>> >>,
                              << <<86, 82>>, <<122, 122>> >> }
    ELSE Targets

Variants == {"oracle", "main", "vrfi", "gen", "vrfc"}

None == [none |-> TRUE]

\* ------------------------------------------------------------------- state
VARIABLES
    variant,            \* which program runs
    threads,            \* --threads
    num_cpus,           \* hardware parallelism
    max_attempts,       \* --max-attempts
    progress_interval,  \* --progress-interval (oracle)
    inputs,             \* which --factory / --bytecode-hash pair was typed
    prefix_arg,         \* --prefix / --starts-with as typed
    suffix_arg,         \* --suffix / --ends-with as typed
    prefix, suffix,     \* the pattern the search hands to the matcher
    found,              \* Arc<AtomicBool>
    total_attempts,     \* Arc<AtomicU64>
    pc,                 \* position of every parallel item
    attempts,           \* per item: local tally (oracle, vrfi) or loop index i
    cur,                \* per item: salt and address of the attempt in hand
    local_best,         \* per item: BestMatch (oracle)
    ret,                \* per item: value returned by the closure
    result,             \* what find_map_any / find_any hands to the caller
    outcome,            \* what the caller reports
    reporter,           \* position of the progress thread of src/main.rs
    last_count,         \* its local last_count
    evaluated,          \* history: number of addresses derived so far
    lateEvals,          \* history: per item, derivations made while found was set
    seen                \* history: the salts search_batch has derived from

cfgVars == <<variant, threads, num_cpus, max_attempts, progress_interval,
             inputs, prefix_arg, suffix_arg, prefix, suffix>>

\* --factory / --deployer and --bytecode-hash as typed.
factory_arg == FactoryText(variant, inputs)
hash_arg == HashText(variant, inputs)
sharedVars == <<found, total_attempts>>
workerVars == <<pc, attempts, cur, local_best, ret>>
callerVars == <<result, outcome>>
reporterVars == <<reporter, last_count>>
histVars == <<evaluated, lateEvals, seen>>
vars == <<cfgVars, sharedVars, workerVars, callerVars, reporterVars, histVars>>

\* thread_count of the oracle program, config.threads of vanity-generator.
thread_count == IF threads = 0 THEN num_cpus ELSE threads

\* The parallel range handed to rayon.
Items == IF variant = "oracle" THEN 0..(thread_count - 1)
         ELSE IF variant = "gen" THEN 0..(max_batches - 1)
         ELSE IF variant = "vrfc" THEN 0..(max_attempts - 1)
         ELSE 0..(threads - 1)

\* Threads of the rayon pool that runs the items.
PoolSize == IF variant \in {"oracle", "gen"} THEN thread_count ELSE num_cpus

Terminal == {"success", "cancelled", "exhausted", "panicked", "skipped"}
Running(i) == pc[i] \notin Terminal \cup {"pending"}

\* BestMatch::new()
BestMatchNew == [address |-> ZeroX \o [j \in 1..40 |-> 48],
                 salt |-> ZeroX \o [j \in 1..64 |-> 48],
                 score |-> 0, attempts |-> 0]

\* Prefix handed to the matcher: vanity-generator lowercases at parsing,
\* vrf_integrator converts through string_to_hex_prefix, vrf_vanity.rs
\* lowercases hex and hex-encodes anything else, the others pass the text as
\* typed.
Normalized(v, t) == IF v = "gen" THEN to_lowercase(t)
                    ELSE IF v = "vrfi" THEN string_to_hex_prefix(t)
                    ELSE IF v = "vrfc"
                    THEN IF \A i \in 1..Len(t) : is_ascii_hexdigit(t[i])
                         THEN to_lowercase(t) ELSE string_to_hex_pattern(t)
                    ELSE t

\* Suffix handed to the matcher: as the prefix, except that vrf_vanity.rs
\* passes args.suffix as typed.
NormalizedSuffix(v, t) == IF v = "vrfc" THEN t ELSE Normalized(v, t)

\* Arguments a program does not have, or does not read, are pinned:
\* num_cpus is read only for --threads 0 (oracle, vanity-generator) and as the
\* size of rayon's default pool (src/main.rs, vrf_integrator, vrf_vanity.rs);
\* vrf_vanity.rs never reads --threads.  Malformed
\* factory or hash text is explored with the unconstrained pattern.
Init ==
    /\ variant \in Variants
    /\ threads \in (IF variant = "vrfc" THEN {1} ELSE 0..MaxThreads)
    /\ num_cpus \in (IF variant \in {"main", "vrfi", "vrfc"} THEN 1..MaxThreads
                      ELSE IF threads = 0 THEN 1..MaxCpus ELSE {1})
    /\ max_attempts \in (IF variant = "gen" THEN {0}
                          ELSE IF variant = "oracle" THEN 0..OracleMaxAttempts
                          ELSE 0..MaxAttempts)
    /\ progress_interval \in (IF variant = "oracle" THEN 0..MaxInterval ELSE {1})
    /\ inputs \in InputCases(variant)
    /\ \E t \in (IF inputs = "default" THEN TargetsOf(variant) ELSE {<< <<>>, <<>> >>}) :
          prefix_arg = t[1] /\ suffix_arg = t[2]
    /\ prefix = Normalized(variant, prefix_arg)
    /\ suffix = NormalizedSuffix(variant, suffix_arg)
    /\ found = FALSE
    /\ total_attempts = 0
    /\ pc = [i \in Items |-> "pending"]
    /\ attempts = [i \in Items |-> 0]
    /\ cur = [i \in Items |-> None]
    /\ local_best = [i \in Items |-> BestMatchNew]
    /\ ret = [i \in Items |-> None]
    /\ result = <<>>
    /\ outcome = [kind |-> "Setup"]
    /\ reporter = "none"
    /\ last_count = 0
    /\ evaluated = 0
    /\ seen = {}
    /\ lateEvals = [i \in Items |-> 0]

\* ------------------------------------------------------------------- setup
\* The parses main() makes before the parallel call: src/main.rs parses the
\* deployer and decodes the hash to exactly 32 bytes, vanity-generator parses
\* factory and hash; the oracle program only normalizes the text and
\* vrf_integrator reads constants.
SetupOk ==
    IF variant = "main"
    THEN /\ address_parse_ok(factory_arg)
         /\ hex_decode_ok(hash_arg)
         /\ Len(hex_decode(hash_arg)) = 32
    ELSE IF variant = "gen"
    THEN address_parse_ok(factory_arg) /\ h256_parse_ok(hash_arg)
    ELSE TRUE

\* main() up to the parallel call; a failed parse panics in expect / panic!.
\* src/main.rs spawns its progress thread after the parses, with last_count 0.
Setup ==
    /\ outcome.kind = "Setup"
    /\ outcome' = [kind |-> IF SetupOk THEN "Running" ELSE "SetupFailed"]
    /\ reporter' = IF SetupOk /\ variant = "main" THEN "head" ELSE reporter
    /\ UNCHANGED <<cfgVars, sharedVars, workerVars, result, last_count, histVars>>

\* ------------------------------------------- progress thread of src/main.rs
\* while !progress_found.load(Relaxed) { sleep(5 s) ...
ReporterCheck ==
    /\ reporter = "head"
    /\ reporter' = IF found THEN "done" ELSE "sleep"
    /\ UNCHANGED <<cfgVars, sharedVars, workerVars, callerVars, last_count, histVars>>

\* ... current = progress_attempts.load(Relaxed); rate = (current -
\* last_count) / 5; println!; last_count = current }. The subtraction is on
\* u64: below zero it panics or wraps, according to the build.
ReporterReport ==
    /\ reporter = "sleep"
    /\ IF total_attempts < last_count
       THEN /\ reporter' \in {"panicked", "head"}
            /\ last_count' = total_attempts
       ELSE /\ reporter' = "head"
            /\ last_count' = total_attempts
    /\ UNCHANGED <<cfgVars, sharedVars, workerVars, callerVars, histVars>>

\* main() returns after printing the outcome: the process ends and the
\* detached progress thread with it.
ProcessExit ==
    /\ outcome.kind \in {"Found", "NotFound", "Panic"}
    /\ reporter \in {"head", "sleep"}
    /\ reporter' = "killed"
    /\ UNCHANGED <<cfgVars, sharedVars, workerVars, callerVars, last_count, histVars>>

\* ------------------------------------------------------------ rayon items
\* rayon's find_any consumer is full once some closure has returned Some.
RayonFull == \E j \in Items : ret[j] # None
SomePanicked == \E j \in Items : pc[j] = "panicked"

\* A pool thread picks up a pending item and enters the closure.
Start(i) ==
    /\ outcome.kind = "Running"
    /\ pc[i] = "pending"
    /\ ~RayonFull
    /\ Cardinality({j \in Items : Running(j)}) < PoolSize
    /\ pc' = [pc EXCEPT ![i] = "check"]
    /\ UNCHANGED <<cfgVars, sharedVars, attempts, cur, local_best, ret, callerVars, reporterVars, histVars>>

\* A pending item is dropped: the consumer is full, or the fold that held
\* the item unwound with a panic.
Skip(i) ==
    /\ pc[i] = "pending"
    /\ RayonFull \/ SomePanicked
    /\ pc' = [pc EXCEPT ![i] = "skipped"]
    /\ UNCHANGED <<cfgVars, sharedVars, attempts, cur, local_best, ret, callerVars, reporterVars, histVars>>

\* The closure of item i returns without a result (kind is "cancelled",
\* "exhausted" or "panicked"): its locals go out of scope, and the history
\* lateEvals follows only items that are running or have returned a result.
Leave(i, kind) ==
    /\ pc' = [pc EXCEPT ![i] = kind]
    /\ attempts' = [attempts EXCEPT ![i] = 0]
    /\ local_best' = [local_best EXCEPT ![i] = BestMatchNew]
    /\ lateEvals' = [lateEvals EXCEPT ![i] = 0]

\* Item i moves on to position next inside its closure.
Goto(i, next) ==
    /\ pc' = [pc EXCEPT ![i] = next]
    /\ UNCHANGED <<attempts, local_best, lateEvals>>

\* ----------------------------------------------------------- oracle worker
\* loop top: if found.load(Relaxed) { break }
OracleCheckFound(i) ==
    /\ variant = "oracle" /\ pc[i] = "check"
    /\ (max_attempts = 0 /\ ~found) => evaluated < MaxEvals
    /\ IF found THEN Leave(i, "cancelled") ELSE Goto(i, "budget")
    /\ UNCHANGED <<cfgVars, sharedVars, cur, ret, callerVars, reporterVars, evaluated, seen>>

\* OracleCheckBudget without the max_attempts > 0 test.
OracleCheckBudget_NoZeroTest(i) ==
    /\ variant = "oracle" /\ pc[i] = "budget"
    /\ IF total_attempts >= max_attempts THEN Leave(i, "exhausted") ELSE Goto(i, "eval")
    /\ UNCHANGED <<cfgVars, sharedVars, cur, ret, callerVars, reporterVars, evaluated, seen>>

\* A budget test that also stops a worker once it holds a partial match.
OracleCheckBudget_StopsOnScore(i) ==
    /\ variant = "oracle" /\ pc[i] = "budget"
    /\ IF (max_attempts > 0 /\ total_attempts >= max_attempts) \/ local_best[i].score > 0
       THEN Leave(i, "exhausted") ELSE Goto(i, "eval")
    /\ UNCHANGED <<cfgVars, sharedVars, cur, ret, callerVars, reporterVars, evaluated, seen>>

\* if max_attempts > 0 && total_attempts.load(Relaxed) >= max_attempts { break }
OracleCheckBudget(i) ==
    /\ variant = "oracle" /\ pc[i] = "budget"
    /\ IF max_attempts > 0 /\ total_attempts >= max_attempts
       THEN Leave(i, "exhausted") ELSE Goto(i, "eval")
    /\ UNCHANGED <<cfgVars, sharedVars, cur, ret, callerVars, reporterVars, evaluated, seen>>

\* A derivation whose factory or hash text does not decode panics in expect.
OracleDerivePanics == inputs \notin OracleDecodable

\* An update that also replaces the best match on an equal score.
BestAfter_KeepsLatest(best, address, salt, score, count) ==
    IF score >= best.score
    THEN [address |-> address, salt |-> salt, score |-> score, attempts |-> count]
    ELSE best

\* if score > local_best.score { local_best = BestMatch { address, salt,
\* score, attempts: total_attempts.load(Relaxed) + attempts } }
BestAfter(best, address, salt, score, count) ==
    IF score > best.score
    THEN [address |-> address, salt |-> salt, score |-> score, attempts |-> count]
    ELSE best

\* A derivation whose result depends on the shared found flag.
OracleDerive_ReadsFlag(k) ==
    OracleAddrFor[inputs][IF found THEN (k + 1) % NumSalts ELSE k]

\* calculate_create2_address(factory, &salt, bytecode_hash) as a worker calls
\* it for draw k: a function of its three arguments only.
OracleDerive(k) == OracleAddrFor[inputs][k]

\* Random salt, address, match test; on a miss the best-match update, the
\* local tally and the remainder test of the progress report.
OracleEvaluate(i) ==
    /\ variant = "oracle" /\ pc[i] = "eval"
    /\ IF OracleDerivePanics
       THEN /\ Leave(i, "panicked")
            /\ UNCHANGED <<cur, evaluated, seen>>
       ELSE /\ \E k \in RandomSaltIds :
                 LET salt == OracleSalt[k]
                     address == OracleDerive(k)
                     score == calculate_match_score(address, prefix, suffix)
                     n == attempts[i] + 1
                 IN  IF is_perfect_match(address, prefix, suffix)
                     THEN /\ cur' = [cur EXCEPT ![i] = [salt |-> salt, address |-> address]]
                          /\ pc' = [pc EXCEPT ![i] = "store"]
                          /\ lateEvals' = [lateEvals EXCEPT ![i] = IF found THEN @ + 1 ELSE @]
                          /\ UNCHANGED <<attempts, local_best>>
                     ELSE IF progress_interval = 0
                     THEN /\ Leave(i, "panicked")
                          /\ UNCHANGED cur
                     ELSE /\ local_best' = [local_best EXCEPT ![i] =
                                BestAfter(@, address, salt, score,
                                          total_attempts + attempts[i])]
                          /\ attempts' = [attempts EXCEPT ![i] = n]
                          /\ pc' = [pc EXCEPT ![i] =
                                IF n % progress_interval = 0 THEN "flush" ELSE "check"]
                          /\ lateEvals' = [lateEvals EXCEPT ![i] = IF found THEN @ + 1 ELSE @]
                          /\ UNCHANGED cur
            /\ evaluated' = evaluated + 1
            /\ UNCHANGED seen
    /\ UNCHANGED <<cfgVars, sharedVars, ret, callerVars, reporterVars>>

\* total_attempts.fetch_add(attempts, Relaxed); attempts = 0
OracleFlush(i) ==
    /\ variant = "oracle" /\ pc[i] = "flush"
    /\ total_attempts' = total_attempts + attempts[i]
    /\ attempts' = [attempts EXCEPT ![i] = 0]
    /\ pc' = [pc EXCEPT ![i] = "check"]
    /\ UNCHANGED <<cfgVars, found, cur, local_best, ret, callerVars, reporterVars, histVars>>

\* found.store(true, Relaxed)
OracleStoreFound(i) ==
    /\ variant = "oracle" /\ pc[i] = "store"
    /\ found' = TRUE
    /\ pc' = [pc EXCEPT ![i] = "final"]
    /\ UNCHANGED <<cfgVars, total_attempts, attempts, cur, local_best, ret, callerVars, reporterVars, histVars>>

\* OracleReturn building the result from the best-match salt instead of the
\* salt of the matching attempt.
OracleReturn_StaleSalt(i) ==
    /\ variant = "oracle" /\ pc[i] = "final"
    /\ total_attempts' = total_attempts + attempts[i]
    /\ ret' = [ret EXCEPT ![i] = [salt |-> local_best[i].salt, address |-> cur[i].address,
                                  attempts |-> total_attempts + attempts[i], item |-> i]]
    /\ pc' = [pc EXCEPT ![i] = "success"]
    /\ UNCHANGED <<cfgVars, found, attempts, cur, local_best, callerVars, reporterVars, histVars>>

\* total = total_attempts.fetch_add(attempts) + attempts; return Some(result)
OracleReturn(i) ==
    /\ variant = "oracle" /\ pc[i] = "final"
    /\ total_attempts' = total_attempts + attempts[i]
    /\ ret' = [ret EXCEPT ![i] = [salt |-> cur[i].salt, address |-> cur[i].address,
                                  attempts |-> total_attempts + attempts[i], item |-> i]]
    /\ pc' = [pc EXCEPT ![i] = "success"]
    /\ UNCHANGED <<cfgVars, found, attempts, cur, local_best, callerVars, reporterVars, histVars>>

\* ------------------------------------------------- src/main.rs worker
\* max_attempts / threads, the budget each closure call passes down.
MainBudget == max_attempts \div threads


\* A loop head that lets the worker run one iteration past its budget.
MainLoopHead_OneMore(i) ==
    /\ variant = "main" /\ pc[i] = "check"
    /\ IF attempts[i] > MainBudget
       THEN /\ total_attempts' = total_attempts + (MainBudget % MainFlush)
            /\ Leave(i, "exhausted")
       ELSE /\ IF found THEN Leave(i, "cancelled") ELSE Goto(i, "eval")
            /\ UNCHANGED total_attempts
    /\ UNCHANGED <<cfgVars, found, cur, ret, callerVars, reporterVars, evaluated, seen>>

\* for i in 0..max_attempts { if found.load(Relaxed) { return None } ...
\* and, once the range is used up, fetch_add(max_attempts % 1000); None
MainLoopHead(i) ==
    /\ variant = "main" /\ pc[i] = "check"
    /\ IF attempts[i] >= MainBudget
       THEN /\ total_attempts' = total_attempts + (MainBudget % MainFlush)
            /\ Leave(i, "exhausted")
       ELSE /\ IF found THEN Leave(i, "cancelled") ELSE Goto(i, "eval")
            /\ UNCHANGED total_attempts
    /\ UNCHANGED <<cfgVars, found, cur, ret, callerVars, reporterVars, evaluated, seen>>

\* Random salt, address, match test and the i % 1000 test.
MainEvaluate(i) ==
    /\ variant = "main" /\ pc[i] = "eval"
    /\ \E k \in RandomSaltIds :
         IF main_matches(MainAddr[k], prefix, suffix)
         THEN /\ cur' = [cur EXCEPT ![i] = [salt |-> RandomSalt[k], address |-> MainAddr[k]]]
              /\ pc' = [pc EXCEPT ![i] = "store"]
              /\ UNCHANGED attempts
         ELSE IF attempts[i] % MainFlush = 0
              THEN /\ pc' = [pc EXCEPT ![i] = "flush"]
                   /\ UNCHANGED <<attempts, cur>>
              ELSE /\ attempts' = [attempts EXCEPT ![i] = @ + 1]
                   /\ pc' = [pc EXCEPT ![i] = "check"]
                   /\ UNCHANGED cur
    /\ evaluated' = evaluated + 1
    /\ UNCHANGED seen
    /\ lateEvals' = [lateEvals EXCEPT ![i] = IF found THEN @ + 1 ELSE @]
    /\ UNCHANGED <<cfgVars, sharedVars, local_best, ret, callerVars, reporterVars>>

\* A flush that stores the interval in the counter instead of adding it.
MainFlushStep_Store(i) ==
    /\ variant = "main" /\ pc[i] = "flush"
    /\ total_attempts' = MainFlush
    /\ attempts' = [attempts EXCEPT ![i] = @ + 1]
    /\ pc' = [pc EXCEPT ![i] = "check"]
    /\ UNCHANGED <<cfgVars, found, cur, local_best, ret, callerVars, reporterVars, histVars>>

\* global_attempts.fetch_add(1000, Relaxed), then the next i
MainFlushStep(i) ==
    /\ variant = "main" /\ pc[i] = "flush"
    /\ total_attempts' = total_attempts + MainFlush
    /\ attempts' = [attempts EXCEPT ![i] = @ + 1]
    /\ pc' = [pc EXCEPT ![i] = "check"]
    /\ UNCHANGED <<cfgVars, found, cur, local_best, ret, callerVars, reporterVars, histVars>>

\* A return of the match that leaves the found flag as it is.
MainStoreFound_NoStore(i) ==
    /\ variant = "main" /\ pc[i] = "store"
    /\ ret' = [ret EXCEPT ![i] = [salt |-> cur[i].salt, address |-> cur[i].address, item |-> i]]
    /\ pc' = [pc EXCEPT ![i] = "success"]
    /\ UNCHANGED <<cfgVars, sharedVars, attempts, cur, local_best, callerVars, reporterVars, histVars>>

\* found.store(true, Relaxed); return Some((salt, address))
MainStoreFound(i) ==
    /\ variant = "main" /\ pc[i] = "store"
    /\ found' = TRUE
    /\ ret' = [ret EXCEPT ![i] = [salt |-> cur[i].salt, address |-> cur[i].address, item |-> i]]
    /\ pc' = [pc EXCEPT ![i] = "success"]
    /\ UNCHANGED <<cfgVars, total_attempts, attempts, cur, local_best, callerVars, reporterVars, histVars>>

\* ------------------------------------------- vrf_integrator_vanity worker
\* max_attempts / thread_count as u64, evaluated in the loop condition.
VrfiBudget == max_attempts \div threads

\* while !local_found.load(Relaxed) && local_attempts < max_attempts / thread_count
VrfiLoopHead(i) ==
    /\ variant = "vrfi" /\ pc[i] = "check"
    /\ pc' = [pc EXCEPT ![i] = IF found THEN "exit_cancelled"
                                ELSE IF attempts[i] >= VrfiBudget THEN "exit_exhausted"
                                ELSE "eval"]
    /\ UNCHANGED <<cfgVars, sharedVars, attempts, cur, local_best, ret, callerVars, reporterVars, histVars>>

\* Where a vrfi worker goes once the flush test is behind it.
VrfiAfterFlush(address) ==
    IF vrfi_check_vanity_pattern(address, prefix, suffix) THEN "store" ELSE "check"

\* generate_random_salt, compute_create2_address, local_attempts += 1 and
\* the local_attempts % 10000 test; without a flush the match test follows.
VrfiEvaluate(i) ==
    /\ variant = "vrfi" /\ pc[i] = "eval"
    /\ \E k \in RandomSaltIds :
         LET n == attempts[i] + 1
             next == IF n % VrfiFlush = 0 THEN "flush" ELSE VrfiAfterFlush(VrfiAddr[k])
         IN  /\ attempts' = [attempts EXCEPT ![i] = n]
             /\ pc' = [pc EXCEPT ![i] = next]
             /\ cur' = [cur EXCEPT ![i] = IF next = "check" THEN None
                            ELSE [salt |-> OracleSalt[k], address |-> VrfiAddr[k]]]
    /\ evaluated' = evaluated + 1
    /\ UNCHANGED seen
    /\ lateEvals' = [lateEvals EXCEPT ![i] = IF found THEN @ + 1 ELSE @]
    /\ UNCHANGED <<cfgVars, sharedVars, local_best, ret, callerVars, reporterVars>>

\* local_attempts_counter.fetch_add(10000, Relaxed), then the match test
VrfiFlushStep(i) ==
    /\ variant = "vrfi" /\ pc[i] = "flush"
    /\ total_attempts' = total_attempts + VrfiFlush
    /\ pc' = [pc EXCEPT ![i] = VrfiAfterFlush(cur[i].address)]
    /\ cur' = [cur EXCEPT ![i] = IF VrfiAfterFlush(@.address) = "check" THEN None ELSE @]
    /\ UNCHANGED <<cfgVars, found, attempts, local_best, ret, callerVars, reporterVars, histVars>>

\* local_found.store(true, Relaxed)
VrfiStoreFound(i) ==
    /\ variant = "vrfi" /\ pc[i] = "store"
    /\ found' = TRUE
    /\ pc' = [pc EXCEPT ![i] = "final"]
    /\ UNCHANGED <<cfgVars, total_attempts, attempts, cur, local_best, ret, callerVars, reporterVars, histVars>>

\* total_attempts = counter.load(Relaxed) + local_attempts; return Some(..)
VrfiReturn(i) ==
    /\ variant = "vrfi" /\ pc[i] = "final"
    /\ ret' = [ret EXCEPT ![i] = [salt |-> cur[i].salt, address |-> cur[i].address,
                                  attempts |-> total_attempts + attempts[i], item |-> i]]
    /\ pc' = [pc EXCEPT ![i] = "success"]
    /\ UNCHANGED <<cfgVars, sharedVars, attempts, cur, local_best, callerVars, reporterVars, histVars>>

\* after the loop: local_attempts_counter.fetch_add(local_attempts); None
VrfiExitFlush(i) ==
    /\ variant = "vrfi" /\ pc[i] \in {"exit_cancelled", "exit_exhausted"}
    /\ total_attempts' = total_attempts + attempts[i]
    /\ Leave(i, IF pc[i] = "exit_cancelled" THEN "cancelled" ELSE "exhausted")
    /\ UNCHANGED <<cfgVars, found, cur, ret, callerVars, reporterVars, evaluated, seen>>

\* ------------------------------------------- vanity-generator search_batch
\* A loop that stops one salt short of the end of its batch.
GenLoopHead_ShortBatch(i) ==
    /\ variant = "gen" /\ pc[i] = "check"
    /\ IF attempts[i] >= BATCH_SIZE - 1 THEN Leave(i, "exhausted")
       ELSE IF found THEN Leave(i, "cancelled")
       ELSE Goto(i, "eval")
    /\ UNCHANGED <<cfgVars, sharedVars, cur, ret, callerVars, reporterVars, evaluated, seen>>

\* for i in 0..count { if found.load(Relaxed) { return None } ...
GenLoopHead(i) ==
    /\ variant = "gen" /\ pc[i] = "check"
    /\ IF attempts[i] >= BATCH_SIZE THEN Leave(i, "exhausted")
       ELSE IF found THEN Leave(i, "cancelled")
       ELSE Goto(i, "eval")
    /\ UNCHANGED <<cfgVars, sharedVars, cur, ret, callerVars, reporterVars, evaluated, seen>>

\* Batches that start one salt apart: they overlap.
BatchStart_Overlapping(batch) == batch

\* let batch_start = batch * BATCH_SIZE, in the closure handed to map()
BatchStart(batch) == batch * BATCH_SIZE

\* The counter incremented after the match test, on a miss only.
GenEvaluate_CountsMisses(i) ==
    /\ variant = "gen" /\ pc[i] = "eval"
    /\ LET batch_start == BatchStart(i)
           salt_num == batch_start + attempts[i]
       IN  /\ IF gen_check_vanity_pattern(GenAddr[salt_num], prefix, suffix)
              THEN /\ cur' = [cur EXCEPT ![i] = [salt |-> GenSalt[salt_num],
                                                 address |-> GenAddr[salt_num]]]
                   /\ pc' = [pc EXCEPT ![i] = "store"]
                   /\ UNCHANGED <<attempts, total_attempts>>
              ELSE /\ attempts' = [attempts EXCEPT ![i] = @ + 1]
                   /\ pc' = [pc EXCEPT ![i] = "check"]
                   /\ total_attempts' = total_attempts + 1
                   /\ UNCHANGED cur
           /\ seen' = seen \cup {GenSalt[salt_num]}
    /\ evaluated' = evaluated + 1
    /\ lateEvals' = [lateEvals EXCEPT ![i] = IF found THEN @ + 1 ELSE @]
    /\ UNCHANGED <<cfgVars, found, local_best, ret, callerVars, reporterVars>>

\* salt_num = start + i, the address, attempts.fetch_add(1) and the match test
GenEvaluate(i) ==
    /\ variant = "gen" /\ pc[i] = "eval"
    /\ LET batch_start == BatchStart(i)
           salt_num == batch_start + attempts[i]
       IN  /\ IF gen_check_vanity_pattern(GenAddr[salt_num], prefix, suffix)
              THEN /\ cur' = [cur EXCEPT ![i] = [salt |-> GenSalt[salt_num],
                                                 address |-> GenAddr[salt_num]]]
                   /\ pc' = [pc EXCEPT ![i] = "store"]
                   /\ UNCHANGED attempts
              ELSE /\ attempts' = [attempts EXCEPT ![i] = @ + 1]
                   /\ pc' = [pc EXCEPT ![i] = "check"]
                   /\ UNCHANGED cur
           /\ seen' = seen \cup {GenSalt[salt_num]}
    /\ total_attempts' = total_attempts + 1
    /\ evaluated' = evaluated + 1
    /\ lateEvals' = [lateEvals EXCEPT ![i] = IF found THEN @ + 1 ELSE @]
    /\ UNCHANGED <<cfgVars, found, local_best, ret, callerVars, reporterVars>>

\* found.store(true, Relaxed); return Some((salt, address))
GenStoreFound(i) ==
    /\ variant = "gen" /\ pc[i] = "store"
    /\ found' = TRUE
    /\ ret' = [ret EXCEPT ![i] = [salt |-> cur[i].salt, address |-> cur[i].address, item |-> i]]
    /\ pc' = [pc EXCEPT ![i] = "success"]
    /\ UNCHANGED <<cfgVars, total_attempts, attempts, cur, local_best, callerVars, reporterVars, histVars>>

\* ------------------------------------------------- vrf_vanity.rs closure
\* One item of (0..max_attempts): if found.load(Relaxed) { return None }
VrfcCheckFound(i) ==
    /\ variant = "vrfc" /\ pc[i] = "check"
    /\ IF found THEN Leave(i, "cancelled") ELSE Goto(i, "eval")
    /\ UNCHANGED <<cfgVars, sharedVars, cur, ret, callerVars, reporterVars, evaluated, seen>>

\* Random salt, address and the match test.
VrfcEvaluate(i) ==
    /\ variant = "vrfc" /\ pc[i] = "eval"
    /\ \E k \in RandomSaltIds :
         IF matches_pattern(VrfcAddr[k], prefix, suffix)
         THEN /\ cur' = [cur EXCEPT ![i] = [salt |-> RandomSalt[k], address |-> VrfcAddr[k]]]
              /\ pc' = [pc EXCEPT ![i] = "store"]
         ELSE /\ pc' = [pc EXCEPT ![i] = "count"]
              /\ UNCHANGED cur
    /\ evaluated' = evaluated + 1
    /\ UNCHANGED seen
    /\ lateEvals' = [lateEvals EXCEPT ![i] = IF found THEN @ + 1 ELSE @]
    /\ UNCHANGED <<cfgVars, sharedVars, attempts, local_best, ret, callerVars, reporterVars>>

\* found.store(true, Relaxed); return Some((salt, address))
VrfcStoreFound(i) ==
    /\ variant = "vrfc" /\ pc[i] = "store"
    /\ found' = TRUE
    /\ ret' = [ret EXCEPT ![i] = [salt |-> cur[i].salt, address |-> cur[i].address, item |-> i]]
    /\ pc' = [pc EXCEPT ![i] = "success"]
    /\ UNCHANGED <<cfgVars, total_attempts, attempts, cur, local_best, callerVars, reporterVars, histVars>>

\* attempts.fetch_add(1, Relaxed) after a miss; the item returns None
VrfcCount(i) ==
    /\ variant = "vrfc" /\ pc[i] = "count"
    /\ total_attempts' = total_attempts + 1
    /\ Leave(i, "exhausted")
    /\ UNCHANGED <<cfgVars, found, cur, ret, callerVars, reporterVars, evaluated, seen>>

\* ------------------------------------------------------------- coordinator
\* FindAny with the reduction left out: every Some value reaches the caller.
FindAny_KeepAll(rets) ==
    LET n == Cardinality(DOMAIN rets)
        all == SelectSeq([j \in 1..n |-> rets[j - 1]], LAMBDA r : r # None)
    IN  {all}

\* What find_map_any / find_any may hand back from the closures' returns:
\* any one of the Some values, or None when there is none.
FindAny(rets) ==
    LET some == {rets[j] : j \in {x \in DOMAIN rets : rets[x] # None}}
    IN  IF some = {} THEN {<<>>} ELSE {<<r>> : r \in some}

\* The attempt count the caller prints for an outcome: the count inside the
\* result (oracle, vrfi) or a load of the counter (main, gen, vrfc) on
\* success, a load of the counter on failure (oracle, main); vrfi, gen and
\* vrfc print no count of attempts made when nothing was found.
ReportedAttempts(r) ==
    IF r # <<>>
    THEN IF variant \in {"oracle", "vrfi"} THEN <<r[1].attempts>> ELSE <<total_attempts>>
    ELSE IF variant \in {"oracle", "main"} THEN <<total_attempts>>
         ELSE <<>>

\* The parallel call returns once every item is done; a panic of an item is
\* resumed in the caller, otherwise the caller prints the outcome.
Join ==
    /\ outcome.kind = "Running"
    /\ \A j \in Items : pc[j] \in Terminal
    /\ IF SomePanicked
       THEN /\ outcome' = [kind |-> "Panic"]
            /\ UNCHANGED result
       ELSE \E r \in FindAny(ret) :
            /\ result' = r
            /\ outcome' = IF r # <<>>
                          THEN [kind |-> "Found", salt |-> r[1].salt, address |-> r[1].address,
                                attempts |-> ReportedAttempts(r)]
                          ELSE [kind |-> "NotFound", attempts |-> ReportedAttempts(r)]
    /\ UNCHANGED <<cfgVars, sharedVars, workerVars, reporterVars, histVars>>

\* ----------------------------------------------------------- specification
Next ==
    \/ Setup
    \/ ReporterCheck
    \/ ReporterReport
    \/ ProcessExit
    \/ \E i \in Items : Start(i)
    \/ \E i \in Items : Skip(i)
    \/ \E i \in Items : OracleCheckFound(i)
    \/ \E i \in Items : OracleCheckBudget(i)
    \/ \E i \in Items : OracleEvaluate(i)
    \/ \E i \in Items : OracleFlush(i)
    \/ \E i \in Items : OracleStoreFound(i)
    \/ \E i \in Items : OracleReturn(i)
    \/ \E i \in Items : MainLoopHead(i)
    \/ \E i \in Items : MainEvaluate(i)
    \/ \E i \in Items : MainFlushStep(i)
    \/ \E i \in Items : MainStoreFound(i)
    \/ \E i \in Items : VrfiLoopHead(i)
    \/ \E i \in Items : VrfiEvaluate(i)
    \/ \E i \in Items : VrfiFlushStep(i)
    \/ \E i \in Items : VrfiStoreFound(i)
    \/ \E i \in Items : VrfiReturn(i)
    \/ \E i \in Items : VrfiExitFlush(i)
    \/ \E i \in Items : GenLoopHead(i)
    \/ \E i \in Items : GenEvaluate(i)
    \/ \E i \in Items : GenStoreFound(i)
    \/ \E i \in Items : VrfcCheckFound(i)
    \/ \E i \in Items : VrfcEvaluate(i)
    \/ \E i \in Items : VrfcStoreFound(i)
    \/ \E i \in Items : VrfcCount(i)
    \/ Join

Spec == Init /\ [][Next]_vars

\* One step of item i, whichever it is.
WorkerStep(i) ==
    \/ Start(i)
    \/ Skip(i)
    \/ OracleCheckFound(i)
    \/ OracleCheckBudget(i)
    \/ OracleEvaluate(i)
    \/ OracleFlush(i)
    \/ OracleStoreFound(i)
    \/ OracleReturn(i)
    \/ MainLoopHead(i)
    \/ MainEvaluate(i)
    \/ MainFlushStep(i)
    \/ MainStoreFound(i)
    \/ VrfiLoopHead(i)
    \/ VrfiEvaluate(i)
    \/ VrfiFlushStep(i)
    \/ VrfiStoreFound(i)
    \/ VrfiReturn(i)
    \/ VrfiExitFlush(i)
    \/ GenLoopHead(i)
    \/ GenEvaluate(i)
    \/ GenStoreFound(i)
    \/ VrfcCheckFound(i)
    \/ VrfcEvaluate(i)
    \/ VrfcStoreFound(i)
    \/ VrfcCount(i)

\* Pool threads and the caller keep running: an item that can take a step
\* eventually takes one, and the caller eventually gets its return.
Fairness == WF_vars(Join) /\ \A i \in 0..(MaxThreads + max_batches + MaxAttempts) : WF_vars(i \in Items /\ WorkerStep(i))

FairSpec == Spec /\ Fairness

TypeOK ==
    /\ found \in BOOLEAN
    /\ total_attempts \in Nat
    /\ \A i \in Items : pc[i] \in Terminal \cup {"pending", "check", "budget", "eval", "flush",
                                                 "store", "final", "count", "exit_cancelled", "exit_exhausted"}
    /\ Len(result) <= 1
    /\ reporter \in {"none", "head", "sleep", "done", "panicked", "killed"}
    /\ last_count \in Nat

\* ================================================================== claims
Succeeded == {i \in Items : ret[i] # None}

\* The parallel call has returned to main().
Ended == outcome.kind \in {"Found", "NotFound", "Panic"}

\* The factory text is 20 bytes of hex and the hash text 32 bytes of hex,
\* each with or without a leading 0x.
InputsValidIn ==
    [v \in Variants |-> [c \in InputCases(v) |->
        /\ hex_decode_ok(StripZeroX(FactoryText(v, c))) /\ Len(StripZeroX(FactoryText(v, c))) = 40
        /\ hex_decode_ok(StripZeroX(HashText(v, c))) /\ Len(StripZeroX(HashText(v, c))) = 64]]
InputsValid == InputsValidIn[variant][inputs]

\* The derivation of each program applied to every salt it can draw, keyed by
\* the salt in the program's own form.
OracleDerived == [c \in OracleDecodable |-> [s \in {OracleSalt[k] : k \in RandomSaltIds} |->
                    oracle_calculate_create2_address(normalize_hex(FactoryText("oracle", c)), s,
                                                     normalize_hex(HashText("oracle", c)))]]
VrfiDerived == [s \in {OracleSalt[k] : k \in RandomSaltIds} |->
                  vrfi_compute_create2_address(factory_address, s, bytecode_hash)]
MainDerived == [s \in {RandomSalt[k] : k \in RandomSaltIds} |->
                  main_calculate_create2_address(factory_bytes, s, bytecode_hash_bytes)]
VrfcDerived == [s \in {RandomSalt[k] : k \in RandomSaltIds} |->
                  vrfc_calculate_create2_address(factory_bytes, s, vrfc_bytecode_hash)]
GenDerived == [s \in {GenSalt[n] : n \in GenSaltNums} |->
                 gen_compute_create2_address(factory_bytes, s, bytecode_hash_bytes)]

\* The derivation of the running program applied to a salt in its own form.
DeriveOf(salt) ==
    IF variant = "oracle" THEN OracleDerived[inputs][salt]
    ELSE IF variant = "vrfi" THEN VrfiDerived[salt]
    ELSE IF variant = "main" THEN MainDerived[salt]
    ELSE IF variant = "vrfc" THEN VrfcDerived[salt]
    ELSE GenDerived[salt]

\* The 40 lowercase hex digits of an address in the running program's form.
LowerHexOf(address) ==
    IF variant \in {"oracle", "vrfi"} THEN Skip2(to_lowercase(address))
    ELSE hex_encode(address)

\* C1: a search invocation hands at most one SearchResult to its caller,
\* also when several workers each returned a match; the result handed over
\* is one of the workers' results.
C1_SingleWinner ==
    /\ Len(result) <= 1
    /\ \A n \in 1..Len(result) : \E i \in Succeeded : result[n] = ret[i]

C1_Witness ==
    /\ Cardinality(Succeeded) >= 2
    /\ outcome.kind = "Found"
    /\ Len(result) = 1

\* C2: at most one worker reaches Success and constructs a result.
C2_SingleProducer == Cardinality({i \in Items : pc[i] = "success"}) <= 1

\* C3: a Found outcome carries an address that is the derivation of the
\* returned salt, that starts with the prefix and ends with the suffix in
\* lowercase hex, and salt and address are those of one attempt of one worker.
C3_ResultSound ==
    outcome.kind = "Found" =>
        /\ outcome.address = DeriveOf(outcome.salt)
        /\ starts_with(LowerHexOf(outcome.address), to_lowercase(prefix))
        /\ ends_with(LowerHexOf(outcome.address), to_lowercase(suffix))
        /\ \E i \in Succeeded :
              /\ result = <<ret[i]>>
              /\ outcome.salt = cur[i].salt
              /\ outcome.address = cur[i].address

C3_Witness ==
    /\ outcome.kind = "Found"
    /\ prefix # <<>>
    /\ evaluated >= 2

\* C4: in the oracle program with max_attempts > 0 the workers together
\* never evaluate more than max_attempts salts.
C4_AttemptCeiling ==
    (variant = "oracle" /\ max_attempts > 0) => evaluated <= max_attempts

\* C5: with max_attempts > 0, at least one worker and no evaluated salt
\* matching, a search that has ended has returned NotFound.
C5_ExhaustionReturnsNotFound ==
    (InputsValid /\ max_attempts > 0 /\ Items # {} /\ ~found /\ Ended)
        => outcome.kind = "NotFound"

C7_FinalCountExact ==
    (outcome.kind \in {"Found", "NotFound"} /\ outcome.attempts # <<>>)
        => outcome.attempts[1] = evaluated

Max(a, b) == IF a < b THEN b ELSE a

\* One flush interval of the running program (an interval of 0 is read as 1).
FlushIntervalOf ==
    IF variant = "oracle" THEN Max(progress_interval, 1)
    ELSE IF variant = "main" THEN MainFlush
    ELSE IF variant = "vrfi" THEN VrfiFlush
    ELSE 1

\* C8: the shared counter never exceeds the number of salts evaluated so far
\* and lags it by at most one flush interval per worker.
C8_BoundedLag ==
    /\ total_attempts <= evaluated
    /\ evaluated - total_attempts <= FlushIntervalOf * Cardinality(Items)

\* C9: after the found flag is set a worker completes at most one further
\* derivation, and a worker that made one terminates without a result.
C9_PromptCancellation ==
    \A i \in Items :
        /\ lateEvals[i] <= 1
        /\ lateEvals[i] = 1 => (ret[i] = None /\ pc[i] \notin {"store", "final", "success"})

\* C10: a panic of one worker does not cost the search a match found by
\* another worker: the caller still reports Found.
C10_FailureIsolation ==
    (InputsValid /\ SomePanicked /\ Succeeded # {} /\ Ended)
        => outcome.kind = "Found"

\* C11: a factory or code hash that is not hex of exactly 20 / 32 bytes stops
\* the search at setup: no worker is launched and no salt is evaluated.
C11_ValidationPrecedesSearch ==
    ~InputsValid =>
        /\ \A i \in Items : pc[i] = "pending"
        /\ evaluated = 0

\* Every address text the oracle program can derive in the model.
OracleAddresses == UNION {{OracleAddrFor[c][k] : k \in RandomSaltIds} : c \in OracleDecodable}

\* Every character of t is a hex digit.
IsHexText(t) == \A i \in 1..Len(t) : is_ascii_hexdigit(t[i])

\* The 40 lowercase hex digits of an address in the form program v keeps it.
LowerHexIn(v, address) ==
    IF v \in {"oracle", "vrfi"} THEN Skip2(to_lowercase(address)) ELSE hex_encode(address)

\* The addresses program v can derive in the model, in its own form.
ProgramAddresses(v) ==
    IF v = "oracle" THEN {OracleAddr[k] : k \in RandomSaltIds}
    ELSE IF v = "vrfi" THEN {VrfiAddr[k] : k \in RandomSaltIds}
    ELSE IF v = "main" THEN {MainAddr[k] : k \in RandomSaltIds}
    ELSE IF v = "vrfc" THEN {VrfcAddr[k] : k \in RandomSaltIds}
    ELSE {GenAddr[n] : n \in GenSaltNums}

\* The match test of program v on the pattern it was handed.
ProgramMatcher(v, address, p, s) ==
    IF v = "oracle" THEN is_perfect_match(address, p, s)
    ELSE IF v = "vrfi" THEN vrfi_check_vanity_pattern(address, p, s)
    ELSE IF v = "main" THEN main_matches(address, p, s)
    ELSE IF v = "vrfc" THEN matches_pattern(address, p, s)
    ELSE gen_check_vanity_pattern(address, p, s)

\* The match the claim defines on the typed pattern.
SpecMatches(hex40, p, s) ==
    /\ starts_with(hex40, to_lowercase(p))
    /\ ends_with(hex40, to_lowercase(s))

\* Typed hex patterns tried on every address: each side empty, matching in
\* either case, or mismatching.
PatternSamples ==
    {<<p, s>> : p \in {<<>>, <<57, 70>>, <<57, 102>>, <<52, 66>>, <<52, 98>>, <<57, 48>>},
                s \in {<<>>, <<65, 67>>, <<97, 99>>, <<70, 67>>, <<102, 99>>, <<57, 99>>}}

\* Program v's matcher, on what v hands it for the typed pattern t, agrees
\* with SpecMatches on every address.
MatcherAgrees(v, t) ==
    \A a \in ProgramAddresses(v) :
        ProgramMatcher(v, a, Normalized(v, t[1]), NormalizedSuffix(v, t[2]))
            <=> SpecMatches(LowerHexIn(v, a), t[1], t[2])

AllSamplesAgree ==
    \A v \in Variants : \A t \in PatternSamples \cup TargetsOf(v) :
        (IsHexText(t[1]) /\ IsHexText(t[2])) => MatcherAgrees(v, t)

\* SpecMatches on every address program v can derive and every typed pattern
\* it is run with.
SpecMatchTable ==
    [v \in Variants |->
        [a \in ProgramAddresses(v) \cup (IF v = "oracle" THEN OracleAddresses ELSE {}) |->
            [t \in TargetsOf(v) |-> SpecMatches(LowerHexIn(v, a), t[1], t[2])]]]

\* C12: for every address and every typed pattern of hex digits in either
\* case, the program's matcher is true exactly when the 40 lowercase hex
\* digits of the address start with lowercase(p) and end with lowercase(s)
\* (an empty side always holds); a worker goes on to report a match only for
\* such an address.
C12_PatternCorrect ==
    /\ AllSamplesAgree
    /\ (IsHexText(prefix_arg) /\ IsHexText(suffix_arg)) =>
          \A i \in Items :
              pc[i] \in {"store", "final", "success"} =>
                  SpecMatchTable[variant][cur[i].address][<<prefix_arg, suffix_arg>>]

C12_Witness ==
    /\ prefix_arg # <<>> /\ prefix_arg # to_lowercase(prefix_arg)
    /\ \E i \in Items : pc[i] = "success"
    /\ \E i \in Items : pc[i] \in {"cancelled", "exhausted"}
    /\ evaluated >= 2

\* The buffer the claim describes: the marker byte, then factory, salt and
\* code hash.
Create2Buffer(f, s, h) == <<255>> \o f \o s \o h

\* Bytes 12..31 (counted from 0) of a 32-byte digest.
LastTwenty(d) == [k \in 1..20 |-> d[12 + k]]

\* The address the claim defines for byte inputs.
LayoutAddress(f, s, h) == LastTwenty(Keccak256(Create2Buffer(f, s, h)))

\* Every derivation, on the 20-byte factory and 32-byte hash of the model and
\* every salt it can draw, returns the last 20 bytes of the digest of the
\* 85-byte buffer, and the text-based ones return the text of what the
\* byte-based ones return.
LayoutAgrees ==
    /\ Len(factory_bytes) = 20 /\ Len(bytecode_hash_bytes) = 32
    /\ \A k \in RandomSaltIds :
          /\ Len(RandomSalt[k]) = 32
          /\ Len(Create2Buffer(factory_bytes, RandomSalt[k], bytecode_hash_bytes)) = 85
          /\ MainAddr[k] = LayoutAddress(factory_bytes, RandomSalt[k], bytecode_hash_bytes)
          /\ VrfcAddr[k] = LayoutAddress(factory_bytes, RandomSalt[k], vrfc_bytecode_hash)
          /\ OracleAddr[k] = AddressText(MainAddr[k])
          /\ VrfiAddr[k] = AddressText(MainAddr[k])
          /\ OracleAddr[k] = AddressText(gen_compute_create2_address(
                                  factory_bytes, RandomSalt[k], bytecode_hash_bytes))
    /\ \A n \in GenSaltNums :
          /\ Len(Create2Buffer(factory_bytes, GenSalt[n], bytecode_hash_bytes)) = 85
          /\ GenAddr[n] = LayoutAddress(factory_bytes, GenSalt[n], bytecode_hash_bytes)

\* The claim's address for every salt of the model, salt and address in the
\* form a program holds them: text in the oracle program and vrf_integrator,
\* bytes in src/main.rs and vanity-generator, bytes and the hash of the
\* constructor bytecode in vrf_vanity.rs.
LayoutInForm ==
    [v \in Variants |->
        IF v \in {"oracle", "vrfi"}
        THEN [s \in {OracleSalt[k] : k \in RandomSaltIds} |->
                ZeroX \o hex_encode(LayoutAddress(factory_bytes, hex_decode(Skip2(s)),
                                                  bytecode_hash_bytes))]
        ELSE [s \in {RandomSalt[k] : k \in RandomSaltIds} \cup {GenSalt[n] : n \in GenSaltNums} |->
                LayoutAddress(factory_bytes, s,
                              IF v = "vrfc" THEN vrfc_bytecode_hash ELSE bytecode_hash_bytes)]]

\* C13: every derivation returns bytes 12..31 of the digest of the 85-byte
\* buffer 0xff, factory, salt, code hash, in that order; the text-based
\* derivation of the oracle program and the byte-based ones of src/main.rs
\* and vanity-generator return the same address for the same inputs; and
\* every address a worker derives in a run from a 20-byte factory and a
\* 32-byte hash is that address for the salt it drew.
C13_DerivationLayout ==
    /\ LayoutAgrees
    /\ InputsValid =>
          \A i \in Items :
              cur[i] # None =>
                  cur[i].address = LayoutInForm[variant][cur[i].salt]

C13_Witness ==
    /\ variant = "oracle" /\ InputsValid
    /\ \E i, j \in Items : /\ cur[i] # None /\ cur[j] # None
                            /\ cur[i].salt # cur[j].salt

\* The (salt, address) pairs the running items hold: the pair of a match and
\* the pair kept as best partial match.
Derivations ==
    {cur[i] : i \in {j \in Items : cur[j] # None}}
        \cup {[salt |-> local_best[i].salt, address |-> local_best[i].address] :
                 i \in {j \in Items : local_best[j].score > 0}}

Largest(S) == CHOOSE n \in S : \A m \in S : m <= n

\* a of the claim: the length of the longest run of equal characters of x and
\* y read from their starts.
LeadingRun(x, y) ==
    Largest({n \in 0..Len(y) : n <= Len(x) /\ SubSeq(x, 1, n) = SubSeq(y, 1, n)})

\* b of the claim: the same, read from their ends.
TrailingRun(x, y) ==
    Largest({n \in 0..Len(y) : n <= Len(x) /\ SubSeq(x, Len(x) - n + 1, Len(x))
                                               = SubSeq(y, Len(y) - n + 1, Len(y))})

\* The score the claim defines for an address text and a typed pattern.
ClaimedScore(address, p, s) ==
    10 * LeadingRun(Skip2(to_lowercase(address)), to_lowercase(p))
        + 10 * TrailingRun(Skip2(to_lowercase(address)), to_lowercase(s))

\* Typed patterns scored on every address: the samples of the matcher, the
\* searched targets, and patterns that agree with an address only after a
\* mismatching character.
ScoreSamples ==
    PatternSamples \cup Targets
        \cup {<<p, s>> : p \in {<<48, 70>>, <<57, 70, 49>>}, s \in {<<65, 48>>, <<54, 100, 97, 99>>}}

\* The claimed score of every address and sample.
ClaimedScoreTable ==
    [a \in OracleAddresses |-> [t \in ScoreSamples |-> ClaimedScore(a, t[1], t[2])]]

ScoreAgrees ==
    \A a \in OracleAddresses : \A t \in ScoreSamples :
        calculate_match_score(a, t[1], t[2]) = ClaimedScoreTable[a][t]

\* C15: calculate_match_score is 10 * a + 10 * b, a the longest run of
\* characters the address hex and the prefix share from the start and b the
\* longest run the address hex and the suffix share from the end; the score
\* a worker keeps with its best partial match is that of the kept address.
C15_ScoreDefinition ==
    /\ ScoreAgrees
    /\ variant = "oracle" =>
          \A i \in Items :
              local_best[i].score > 0 =>
                  local_best[i].score = ClaimedScoreTable[local_best[i].address][<<prefix, suffix>>]

C15_Witness ==
    /\ variant = "oracle"
    /\ \E i \in Items : /\ local_best[i].score = 10
                         /\ pc[i] \in {"check", "budget", "eval", "flush"}

\* calculate_match_score and is_perfect_match on every address and sample.
ScoreTable ==
    [a \in OracleAddresses |-> [t \in ScoreSamples |-> calculate_match_score(a, t[1], t[2])]]
PerfectTable ==
    [a \in OracleAddresses |-> [t \in ScoreSamples |-> is_perfect_match(a, t[1], t[2])]]

\* 10 * (len(prefix) + len(suffix))
MaxScore(t) == 10 * (Len(t[1]) + Len(t[2]))

\* The score never exceeds the maximum and reaches it exactly on a perfect
\* match.
ScoreBounded ==
    \A a \in OracleAddresses : \A t \in ScoreSamples :
        /\ Len(t[1]) <= 40 /\ Len(t[2]) <= 40
        /\ ScoreTable[a][t] <= MaxScore(t)
        /\ (ScoreTable[a][t] = MaxScore(t)) <=> PerfectTable[a][t]

\* With one side of the pattern fixed, the pattern whose other side shares a
\* longer run with the address scores strictly higher.
ScoreMonotone ==
    \A a \in OracleAddresses : \A t, u \in ScoreSamples :
        LET hex == Skip2(to_lowercase(a))
        IN  /\ (t[2] = u[2] /\ LeadingRun(hex, to_lowercase(t[1]))
                                  < LeadingRun(hex, to_lowercase(u[1])))
                  => ScoreTable[a][t] < ScoreTable[a][u]
            /\ (t[1] = u[1] /\ TrailingRun(hex, to_lowercase(t[2]))
                                  < TrailingRun(hex, to_lowercase(u[2])))
                  => ScoreTable[a][t] < ScoreTable[a][u]

\* C16: for patterns of at most 40 characters a side the score is at most
\* 10 * (len(prefix) + len(suffix)), a longer matching run on one side with
\* the other side fixed scores strictly higher, and the score is the maximum
\* exactly when is_perfect_match holds: in a run, the address a worker
\* accepts scores the maximum and a kept partial match scores less.
C16_ScoreMaximum ==
    /\ ScoreBounded
    /\ ScoreMonotone
    /\ variant = "oracle" =>
          \A i \in Items :
              /\ cur[i] # None =>
                    ScoreTable[cur[i].address][<<prefix, suffix>>] = MaxScore(<<prefix, suffix>>)
              /\ local_best[i].score > 0 =>
                    /\ local_best[i].score < MaxScore(<<prefix, suffix>>)
                    /\ ~PerfectTable[local_best[i].address][<<prefix, suffix>>]

C16_Witness ==
    /\ variant = "oracle" /\ prefix # <<>>
    /\ \E i, j \in Items : /\ cur[i] # None
                            /\ local_best[j].score > 0

\* C17: with --threads 0 the search runs with as many workers as the
\* hardware offers, at least one, so a search that ends has had at least one
\* worker that evaluated a salt.
C17_ZeroThreadsDefault ==
    (threads = 0 /\ variant \in {"oracle", "gen", "main"}
                 /\ outcome.kind \in {"Found", "NotFound"}) =>
        /\ Items # {}
        /\ evaluated >= 1

\* The operator asked for no attempt ceiling and a pattern every address
\* matches, and the workers can run.
TrivialSearch ==
    /\ max_attempts = 0 /\ prefix_arg = <<>> /\ suffix_arg = <<>>
    /\ Items # {}

\* Every salt evaluated so far was a match, and no item evaluated twice.
FirstSaltsOnly ==
    /\ evaluated = Cardinality({i \in Items : cur[i] # None})
    /\ \A i \in Items : attempts[i] = 0 /\ local_best[i] = BestMatchNew
    /\ total_attempts = 0

C19_CounterMonotonic ==
    /\ [][total_attempts' >= total_attempts]_vars
    /\ [](last_count <= total_attempts /\ reporter # "panicked")

C19_Witness ==
    /\ variant = "main" /\ reporter = "sleep"
    /\ last_count > 0 /\ total_attempts > last_count

\* A text of lowercase hex digits only (0-9, a-f).
IsLowerHexText(t) == \A i \in 1..Len(t) : t[i] \in (48..57) \cup (97..102)

\* C20: whatever prefix and suffix the operator typed, the prefix and the
\* suffix the search hands to the matcher are lowercase hex digits only, a
\* non-hex text being replaced by the hex of its bytes on both sides
\* (vrf_integrator_vanity.rs and vrf_vanity.rs).
C20_TargetNormalized ==
    variant \in {"vrfi", "vrfc"} =>
        /\ IsLowerHexText(prefix)
        /\ IsLowerHexText(suffix)

\* C21: once the search has returned Found or NotFound no thread reads or
\* writes the found flag or the attempt counter again: no item takes a step
\* and the progress thread of src/main.rs makes no further load (the only
\* step left to it is to end).
C21_SharedStateScoped ==
    [][outcome.kind \in {"Found", "NotFound"} =>
          /\ pc' = pc
          /\ found' = found /\ total_attempts' = total_attempts
          /\ last_count' = last_count
          /\ reporter' \in {reporter, "killed"}]_vars

\* Item i of the oracle program evaluates a salt that is no match, in this
\* step.
MissStep(i) == pc[i] = "eval" /\ pc'[i] \in {"check", "flush"}

\* C22: in the oracle worker loop local_best is replaced only when a
\* non-matching salt scores strictly more than local_best.score; so the
\* score a running worker keeps never decreases, it is 0 before any miss and
\* after every miss the larger of the score kept and the score of the salt
\* just evaluated, and on an equal score the earlier candidate stays.
C22_BestRunningMax ==
    /\ [](\A i \in Items : pc[i] = "pending" => local_best[i] = BestMatchNew)
    /\ [][variant = "oracle" =>
            \A i \in Items :
                /\ (local_best'[i] # local_best[i] /\ pc'[i] \notin Terminal) =>
                      /\ MissStep(i)
                      /\ local_best'[i].score > local_best[i].score
                /\ MissStep(i) =>
                      \E k \in RandomSaltIds :
                          LET a == OracleAddrFor[inputs][k]
                              sc == ScoreTable[a][<<prefix, suffix>>]
                          IN  /\ ~PerfectTable[a][<<prefix, suffix>>]
                              /\ local_best'[i].score = Max(local_best[i].score, sc)
                              /\ sc <= local_best[i].score => local_best'[i] = local_best[i]
                              /\ sc > local_best[i].score =>
                                    /\ local_best'[i].address = a
                                    /\ local_best'[i].salt = OracleSalt[k]]_vars

C22_Witness ==
    /\ variant = "oracle" /\ Cardinality(Items) = 1
    /\ \E i \in Items :
          /\ pc[i] \notin Terminal
          /\ local_best[i].score > 0
          /\ total_attempts + attempts[i] > local_best[i].attempts + 1

\* The positions of the oracle worker loop.
OracleLoop == {"check", "budget", "eval", "flush", "store", "final"}

\* Item i keeps its tally, attempt in hand and return value, and the flag and
\* the counter stay as they are.
ScoreFreeSame(i) ==
    /\ cur'[i] = cur[i] /\ ret'[i] = ret[i]
    /\ found' = found /\ total_attempts' = total_attempts

\* One step of the oracle worker loop written without the score and without
\* local_best: what the step does to the position, the tally, the attempt in
\* hand, the return value, the flag and the counter, from those alone.
ScoreFreeWorker(i) ==
    \/ /\ pc[i] = "check"
       /\ pc'[i] = (IF found THEN "cancelled" ELSE "budget")
       /\ attempts'[i] = (IF found THEN 0 ELSE attempts[i])
       /\ ScoreFreeSame(i)
    \/ /\ pc[i] = "budget"
       /\ LET stop == max_attempts > 0 /\ total_attempts >= max_attempts
          IN  /\ pc'[i] = (IF stop THEN "exhausted" ELSE "eval")
              /\ attempts'[i] = (IF stop THEN 0 ELSE attempts[i])
       /\ ScoreFreeSame(i)
    \/ /\ pc[i] = "eval" /\ OracleDerivePanics
       /\ pc'[i] = "panicked" /\ attempts'[i] = 0
       /\ ScoreFreeSame(i)
    \/ /\ pc[i] = "eval" /\ ~OracleDerivePanics
       /\ \E k \in RandomSaltIds :
             LET a == OracleAddrFor[inputs][k]
                 n == attempts[i] + 1
             IN  IF PerfectTable[a][<<prefix, suffix>>]
                 THEN /\ pc'[i] = "store"
                      /\ cur'[i] = [salt |-> OracleSalt[k], address |-> a]
                      /\ attempts'[i] = attempts[i]
                 ELSE /\ cur'[i] = cur[i]
                      /\ IF progress_interval = 0
                         THEN pc'[i] = "panicked" /\ attempts'[i] = 0
                         ELSE /\ attempts'[i] = n
                              /\ pc'[i] = (IF n % progress_interval = 0 THEN "flush"
                                           ELSE "check")
       /\ ret'[i] = ret[i] /\ found' = found /\ total_attempts' = total_attempts
    \/ /\ pc[i] = "flush"
       /\ pc'[i] = "check" /\ attempts'[i] = 0
       /\ total_attempts' = total_attempts + attempts[i]
       /\ cur'[i] = cur[i] /\ ret'[i] = ret[i] /\ found' = found
    \/ /\ pc[i] = "store"
       /\ pc'[i] = "final" /\ found' = TRUE
       /\ attempts'[i] = attempts[i] /\ cur'[i] = cur[i] /\ ret'[i] = ret[i]
       /\ total_attempts' = total_attempts
    \/ /\ pc[i] = "final"
       /\ pc'[i] = "success"
       /\ total_attempts' = total_attempts + attempts[i]
       /\ ret'[i] = [salt |-> cur[i].salt, address |-> cur[i].address,
                     attempts |-> total_attempts + attempts[i], item |-> i]
       /\ attempts'[i] = attempts[i] /\ cur'[i] = cur[i] /\ found' = found

\* C23: computing the score and updating local_best changes neither the
\* found flag nor the counter nor the terminal state a worker reaches: every
\* step of the oracle worker loop is a step of the loop written without
\* score and local_best, so runs that differ in the scores only end with the
\* same outcome, salt, address and counter; the outcome handed to the caller
\* is made of the workers' return values.
C23_ScoringNoInfluence ==
    /\ [][variant = "oracle" =>
            \A i \in Items :
                (pc[i] \in OracleLoop /\ pc'[i] # pc[i]) =>
                    /\ ScoreFreeWorker(i)
                    /\ \A j \in Items \ {i} :
                          /\ pc'[j] = pc[j] /\ attempts'[j] = attempts[j]
                          /\ cur'[j] = cur[j] /\ ret'[j] = ret[j]
                    /\ result' = result /\ outcome' = outcome]_vars
    /\ []((variant = "oracle" /\ outcome.kind = "Found") =>
            \E i \in Items : /\ ret[i] # None
                             /\ outcome.salt = ret[i].salt
                             /\ outcome.address = ret[i].address
                             /\ outcome.attempts = <<ret[i].attempts>>)

C23_Witness ==
    /\ variant = "oracle" /\ outcome.kind = "Found"
    /\ \E i, j \in Items :
          /\ pc[i] = "success"
          /\ local_best[i].score > 0
          /\ pc[j] \in {"cancelled", "exhausted"}

\* The match test of every program on every address it can derive and every
\* pattern it can be handed.
MatchTable ==
    [v \in Variants |->
        [a \in ProgramAddresses(v) \cup (IF v = "oracle" THEN OracleAddresses ELSE {}) |->
            [t \in {<<Normalized(v, u[1]), NormalizedSuffix(v, u[2])>> : u \in TargetsOf(v)} |->
                ProgramMatcher(v, a, t[1], t[2])]]]

\* Item i has evaluated a salt whose address is an exact match and is past
\* its store of the flag.
StoredMatch(i) ==
    /\ pc[i] \in {"final", "success"}
    /\ cur[i] # None
    /\ MatchTable[variant][cur[i].address][<<prefix, suffix>>]

\* C24: the found flag is true only if some worker evaluated a salt that is
\* an exact match, once true it stays true, and whenever the caller holds a
\* Found result the flag is true.
C24_FoundLatch ==
    /\ [](found => \E i \in Items : StoredMatch(i))
    /\ [][found => found']_vars
    /\ []((outcome.kind = "Found" \/ result # <<>>) => found)

C24_Witness ==
    /\ found /\ outcome.kind = "Found"
    /\ \E i \in Items : pc[i] = "cancelled"
    /\ \E i \in Items : pc[i] = "exhausted"

\* C25: if a worker reaches Success the caller returns Found with the result
\* of a successful worker, and the search returns NotFound only when no
\* worker found an exact match and the found flag is false.
C25_NoLostSuccess ==
    /\ (Succeeded # {} /\ Ended) =>
          /\ outcome.kind = "Found"
          /\ \E i \in Succeeded : result = <<ret[i]>>
    /\ outcome.kind = "NotFound" =>
          /\ Succeeded = {}
          /\ ~found

\* floor(max_attempts / T) for the T = threads workers of src/main.rs and
\* vrf_integrator.
SplitBudget == max_attempts \div threads

\* C26: in src/main.rs and vrf_integrator each of the T >= 1 workers
\* evaluates at most floor(max_attempts / T) salts, the salts evaluated in
\* total never exceed max_attempts, and a run that ends without a match has
\* evaluated exactly T * floor(max_attempts / T) salts.
C26_BudgetSplit ==
    (variant \in {"main", "vrfi"} /\ threads >= 1) =>
        /\ \A i \in Items :
              /\ attempts[i] <= SplitBudget
              /\ (variant = "main" /\ pc[i] \in {"eval", "flush", "store"}) =>
                    attempts[i] < SplitBudget
              /\ (variant = "vrfi" /\ pc[i] = "eval") => attempts[i] < SplitBudget
        /\ evaluated <= threads * SplitBudget
        /\ evaluated <= max_attempts
        /\ (outcome.kind = "NotFound" /\ ~found) => evaluated = threads * SplitBudget

C26_Witness ==
    /\ variant = "main" /\ threads = 2 /\ max_attempts = 3
    /\ outcome.kind = "NotFound"
    /\ evaluated = 2


\* ------------------------------------------------------------- C27
\* BATCH_SIZE and max_batches as the program has them.
RealBatchSize == 1000000
RealMaxBatches == 100000

\* Number of binary digits of n.
RECURSIVE BitLen(_)
BitLen(n) == IF n = 0 THEN 0 ELSE 1 + BitLen(n \div 2)

\* Byte j (0 is the last one) of the big-endian writing of n.
RECURSIVE ByteOf(_, _)
ByteOf(n, j) == IF j = 0 THEN n % 256 ELSE ByteOf(n \div 256, j - 1)

\* The 32-byte big-endian encoding of n.
BigEndian32(n) == [k \in 1..32 |-> ByteOf(n, 32 - k)]

\* The salts of the claim: the encodings of batch * BATCH_SIZE + i.
BatchSalts ==
    {BigEndian32(b * BATCH_SIZE + k) : b \in 0..(max_batches - 1), k \in 0..(BATCH_SIZE - 1)}

\* Every number below max_batches * BATCH_SIZE is batch * BATCH_SIZE + i for
\* exactly one batch and one i, and no other number is.
BatchesPartition ==
    /\ \A n \in 0..(max_batches * BATCH_SIZE - 1) :
          Cardinality({bk \in (0..(max_batches - 1)) \X (0..(BATCH_SIZE - 1)) :
                          bk[1] * BATCH_SIZE + bk[2] = n}) = 1
    /\ \A b \in 0..(max_batches - 1), k \in 0..(BATCH_SIZE - 1) :
          b * BATCH_SIZE + k \in 0..(max_batches * BATCH_SIZE - 1)

\* a * b < 2^(BitLen(a) + BitLen(b)): the largest salt number fits 64 bits.
NoOverflow64 ==
    /\ BitLen(RealMaxBatches) + BitLen(RealBatchSize) <= 64
    /\ BitLen(max_batches) + BitLen(BATCH_SIZE) <= 30

\* C27: in the vanity-generator every evaluated salt is the 32-byte
\* big-endian encoding of batch * BATCH_SIZE + i with batch < max_batches and
\* i < BATCH_SIZE, the batches partition the range, no salt is evaluated
\* twice (as many distinct salts as evaluations), an item only evaluates
\* salts of its own batch, and the salt number fits 64 bits.
C27_DisjointBatches ==
    variant = "gen" =>
        /\ seen \subseteq BatchSalts
        /\ Cardinality(seen) = evaluated
        /\ BatchesPartition
        /\ NoOverflow64
        /\ \A i \in Items : cur[i] # None =>
              cur[i].salt \in {BigEndian32(i * BATCH_SIZE + k) : k \in 0..(BATCH_SIZE - 1)}

\* Every salt of the range has been evaluated, by two workers, none matched.
C27_Witness ==
    /\ variant = "gen" /\ thread_count = 2
    /\ Cardinality(seen) = max_batches * BATCH_SIZE
    /\ evaluated = max_batches * BATCH_SIZE
    /\ outcome.kind = "NotFound"

\* ------------------------------------------------------------- C28
\* The vanity-generator alone: its start states and its steps.
GenInit == Init /\ variant = "gen"

GenNext ==
    \/ Setup
    \/ \E i \in Items : Start(i)
    \/ \E i \in Items : Skip(i)
    \/ \E i \in Items : GenLoopHead(i)
    \/ \E i \in Items : GenEvaluate(i)
    \/ \E i \in Items : GenStoreFound(i)
    \/ Join

\* main() runs on, the pool's threads run the batches they hold and pick up
\* the batches left, and the parallel call returns once all are done.
GenFairness ==
    /\ WF_vars(Setup)
    /\ WF_vars(Join)
    /\ \A i \in 0..max_batches :
          WF_vars(i \in Items /\ (Start(i) \/ Skip(i) \/ GenLoopHead(i)
                                    \/ GenEvaluate(i) \/ GenStoreFound(i)))

GenFairSpec == GenInit /\ [][GenNext]_vars /\ GenFairness

\* The salt numbers of the range whose address matches the pattern.
MatchingSaltNums ==
    {n \in GenSaltNums : gen_check_vanity_pattern(GenAddr[n], prefix, suffix)}

\* C28: in the vanity-generator, once the search has started with at least
\* one matching salt in [0, max_batches * BATCH_SIZE), it eventually returns
\* Found under fair scheduling; "Search stopped" is reported only if no salt
\* of the range matches; and the result returned is a matching salt of the
\* range with its address.
C28_EnumerationComplete ==
    /\ [](outcome.kind = "NotFound" => MatchingSaltNums = {})
    /\ [](outcome.kind = "Found" =>
            \E n \in MatchingSaltNums :
                outcome.salt = GenSalt[n] /\ outcome.address = GenAddr[n])
    /\ (outcome.kind = "Running" /\ MatchingSaltNums # {}) ~> (outcome.kind = "Found")
    /\ (outcome.kind = "Running" /\ MatchingSaltNums = {}) ~> (outcome.kind = "NotFound")

\* Found although the first batch ran to its end without a match.
C28_Witness ==
    /\ variant = "gen" /\ outcome.kind = "Found"
    /\ MatchingSaltNums = {3}
    /\ pc[0] = "exhausted"

\* ------------------------------------------------------------- C29
\* Item i derives an address in this step.
GenDerives(i) == pc[i] = "eval" /\ pc'[i] # "eval"

\* C29: in the vanity-generator the shared counter goes up by exactly 1 in
\* every step that derives an address, a matching one included, and in no
\* other step; so it always equals the number of derivations made and the
\* number of distinct salts evaluated, and the attempts value printed on
\* success is the number of salts evaluated by all workers, the matching
\* attempt included.
C29_ExactCounting ==
    /\ [](total_attempts = evaluated /\ total_attempts = Cardinality(seen))
    /\ [](outcome.kind = "Found" =>
            /\ outcome.attempts = <<evaluated>>
            /\ evaluated >= 1
            /\ outcome.salt \in seen)
    /\ [][/\ (\E i \in Items : GenDerives(i)) => total_attempts' = total_attempts + 1
          /\ (~ \E i \in Items : GenDerives(i)) => total_attempts' = total_attempts]_vars

\* Found at the last salt of the range: the count printed is the whole range.
C29_Witness ==
    /\ variant = "gen" /\ outcome.kind = "Found"
    /\ outcome.attempts = <<max_batches * BATCH_SIZE>>
    /\ outcome.salt = GenSalt[3]
    /\ \E i \in Items : pc[i] = "exhausted"

\* ------------------------------------------------------------- C30
\* C30: for every accepted configuration, progress_interval = 0 (oracle) and
\* threads = 0 (src/main.rs, vrf_integrator) included, no worker aborts on a
\* division or remainder by zero: a worker that aborts in its attempt does so
\* in the derivation (text that is not hex), never in the arithmetic after it.
C30_NoArithmeticFault ==
    [][\A i \in Items : (pc[i] = "eval" /\ pc'[i] = "panicked") => OracleDerivePanics]_vars
====
